---- MODULE Spec2Model ----
(***************************************************************************)
(* Model of the CharacterCounter component                                 *)
(* (src/src/components/tools/CharacterCounter.tsx): the statistics scan    *)
(* calculateStats, the token computation calculateTokens and the debounced *)
(* scheduling of both by updateStats; and of the debounce, the requests,   *)
(* the zoom and the upload of the other tools of the toolbox: HtmlEditor,  *)
(* PlantUMLEditor, MermaidEditor and WordToMarkdownEditor.  Every tool has *)
(* a specification of its own, over its own variables.                     *)
(*                                                                         *)
(* One action is one turn of the browser's event loop (one macrotask with  *)
(* the microtasks it triggers): an event handler together with the render  *)
(* and the effects it causes, a timer callback up to its first real        *)
(* suspension, the resolution of a dynamic import, or the 10 ms timer that *)
(* runs the tokenizer.                                                     *)
(***************************************************************************)
EXTENDS Integers, Sequences, FiniteSets, TLC

VARIABLES
    text,                \* useState text                       (line 39)
    isCalculating,       \* useState isCalculating              (line 40)
    enableTokenCount,    \* useState enableTokenCount           (line 41)
    selectedModel,       \* useState selectedModel              (line 42)
    stats,               \* useState stats: the published report (line 43)
    debounceTimeoutRef,  \* useRef: id of the last armed timer, 0 = null (line 57)
    timers,              \* the browser's pending debounce timers (armed, not fired, not cleared)
    nextTimerId,         \* the id setTimeout hands out next
    tokenTasks,          \* cycles suspended inside `await calculateTokens(...)`
    loadedEncodings,     \* tokenizer modules the module cache already holds
    mounted,             \* FALSE once the component has been unmounted
    events,              \* number of user events so far (bounds the run)
    lastCall,            \* history: cycle and text of the latest updateStats call
    lastFired,           \* history: cycle and settings of the latest fired timer
    log,                 \* history: every setStats call, in order
    htmlEditor,          \* the HtmlEditor component: its state, its timers, its iframe
    plantUMLEditor,      \* the PlantUMLEditor component, its timer and its requests
    mermaidEditor,       \* the MermaidEditor component of part_002 and its timers
    zoom,                \* the zoom factor of the zoomable editor on display
    wordToMarkdownEditor \* the WordToMarkdownEditor component and its conversion

vars == <<text, isCalculating, enableTokenCount, selectedModel, stats,
          debounceTimeoutRef, timers, nextTimerId, tokenTasks, loadedEncodings,
          mounted, events, lastCall, lastFired, log,
          htmlEditor, plantUMLEditor, mermaidEditor, zoom, wordToMarkdownEditor>>

\* the state of the other tools of the toolbox, which CharacterCounter never touches
editorVars == <<wordToMarkdownEditor, zoom, mermaidEditor, plantUMLEditor, htmlEditor>>

\* the state of CharacterCounter, which the other tools never touch
counterVars == <<text, isCalculating, enableTokenCount, selectedModel, stats,
                 debounceTimeoutRef, timers, nextTimerId, tokenTasks, loadedEncodings,
                 mounted, events, lastCall, lastFired, log>>

\* Bound on the number of user events (typing, import, settings, clear) of a run.
MaxEvents == 2

----------------------------------------------------------------------------
(* Texts.  A text is the string body followed by `pad` copies of PadChar;  *)
(* the padding stands for the bulk of a long document, so that lengths     *)
(* around the delay thresholds are representable.  Characters are UTF-16   *)
(* code units, named symbolically.                                         *)

PadChar == "a"

Text(body, pad) == [body |-> body, pad |-> pad]

\* inputText.length
Length(t) == Len(t.body) + t.pad

EmptyText == Text(<<>>, 0)

MutSpaceIncludesCR(char) == char \in {"SP", "TAB", "CR"}

MutSpaceIncludesLF(char) == char \in {"SP", "TAB", "LF"}

IsSpaceOrTab(char) == char \in {"SP", "TAB"}
IsDigit(char) == char \in {"0", "1", "2", "3", "9"}
MutLettersLowercaseOnly(char) ==
    char \in {"a", "b", "c", "d", "e", "i", "l", "n", "o", "r", "w", "z"}

IsAsciiLetter(char) ==
    char \in {"a", "b", "c", "d", "e", "i", "l", "n", "o", "r", "w", "z", "A", "Z"}
\* code >= 0x4e00 && code <= 0x9fff
MutChineseNoUpperBound(char) ==
    char \in {"U4E00", "U4F60", "U597D", "U9FFF", "UD83D", "UDE00", "UFF01"}

IsChinese(char) == char \in {"U4E00", "U4F60", "U597D", "U9FFF"}
\* the character class of the punctuation regular expression (line 165)
IsPunctuation(char) ==
    char \in {".", ",", ";", ":", "!", "?", "QUOTE", "DQUOTE", "LPAREN", "RPAREN",
              "LBRACKET", "RBRACKET", "LBRACE", "RBRACE", "-", "_", "+", "=", "<",
              ">", "/", "@", "#", "$", "%", "^", "&", "STAR", "~", "BACKTICK", "|",
              "BACKSLASH"}

----------------------------------------------------------------------------
(* calculateStats: the classification scan (lines 127-173) and the word    *)
(* scan (lines 177-190).                                                   *)

MutScanInitInParagraph ==
    [chineseChars |-> 0, englishChars |-> 0, numbers |-> 0, punctuation |-> 0,
     spaces |-> 0, lines |-> 1, paragraphs |-> 0, inParagraph |-> TRUE]

MutScanInitNoLine ==
    [chineseChars |-> 0, englishChars |-> 0, numbers |-> 0, punctuation |-> 0,
     spaces |-> 0, lines |-> 0, paragraphs |-> 0, inParagraph |-> FALSE]

ScanInit ==
    [chineseChars |-> 0, englishChars |-> 0, numbers |-> 0, punctuation |-> 0,
     spaces |-> 0, lines |-> 1, paragraphs |-> 0, inParagraph |-> FALSE]

\* one iteration of the first loop: lines/paragraphs, then the character class
MutScanStepCarriageReturnOpens(acc, char) ==
    LET a1 == IF char = "LF"
                THEN [acc EXCEPT !.lines = @ + 1,
                                 !.paragraphs = IF acc.inParagraph THEN @ + 1 ELSE @,
                                 !.inParagraph = FALSE]
              ELSE IF char # "SP" /\ char # "TAB"
                THEN [acc EXCEPT !.inParagraph = TRUE]
              ELSE acc
    IN  IF IsSpaceOrTab(char) THEN [a1 EXCEPT !.spaces = @ + 1]
        ELSE IF IsDigit(char) THEN [a1 EXCEPT !.numbers = @ + 1]
        ELSE IF IsAsciiLetter(char) THEN [a1 EXCEPT !.englishChars = @ + 1]
        ELSE IF IsChinese(char) THEN [a1 EXCEPT !.chineseChars = @ + 1]
        ELSE IF char # "LF" /\ char # "CR" /\ IsPunctuation(char)
            THEN [a1 EXCEPT !.punctuation = @ + 1]
        ELSE a1

ScanStep(acc, char) ==
    LET a1 == IF char = "LF"
                THEN [acc EXCEPT !.lines = @ + 1,
                                 !.paragraphs = IF acc.inParagraph THEN @ + 1 ELSE @,
                                 !.inParagraph = FALSE]
              ELSE IF char # "SP" /\ char # "TAB" /\ char # "CR"
                THEN [acc EXCEPT !.inParagraph = TRUE]
              ELSE acc
    IN  IF IsSpaceOrTab(char) THEN [a1 EXCEPT !.spaces = @ + 1]
        ELSE IF IsDigit(char) THEN [a1 EXCEPT !.numbers = @ + 1]
        ELSE IF IsAsciiLetter(char) THEN [a1 EXCEPT !.englishChars = @ + 1]
        ELSE IF IsChinese(char) THEN [a1 EXCEPT !.chineseChars = @ + 1]
        ELSE IF char # "LF" /\ char # "CR" /\ IsPunctuation(char)
            THEN [a1 EXCEPT !.punctuation = @ + 1]
        ELSE a1

RECURSIVE ScanBody(_, _, _)
ScanBody(chars, i, acc) ==
    IF i > Len(chars) THEN acc ELSE ScanBody(chars, i + 1, ScanStep(acc, chars[i]))

\* n further iterations of the first loop over the same character: after the
\* first of them the flags are stable and every iteration adds the same amounts
ScanRun(acc, char, n) ==
    IF n = 0 THEN acc
    ELSE LET a1 == ScanStep(acc, char)
             a2 == ScanStep(a1, char)
         IN  [chineseChars |-> a1.chineseChars + (n - 1) * (a2.chineseChars - a1.chineseChars),
              englishChars |-> a1.englishChars + (n - 1) * (a2.englishChars - a1.englishChars),
              numbers      |-> a1.numbers + (n - 1) * (a2.numbers - a1.numbers),
              punctuation  |-> a1.punctuation + (n - 1) * (a2.punctuation - a1.punctuation),
              spaces       |-> a1.spaces + (n - 1) * (a2.spaces - a1.spaces),
              lines        |-> a1.lines + (n - 1) * (a2.lines - a1.lines),
              paragraphs   |-> a1.paragraphs + (n - 1) * (a2.paragraphs - a1.paragraphs),
              inParagraph  |-> a1.inParagraph]

MutWordCharAsciiOnly(char) == IsAsciiLetter(char) \/ IsDigit(char)

\* /[a-zA-Z0-9\u4e00-\u9fff]/
IsWordChar(char) == IsAsciiLetter(char) \/ IsDigit(char) \/ IsChinese(char)

\* one iteration of the word loop
MutWordStepNoReset(w, char) ==
    IF IsWordChar(char) /\ ~w.inWord THEN [words |-> w.words + 1, inWord |-> TRUE]
    ELSE w

WordStep(w, char) ==
    IF IsWordChar(char) /\ ~w.inWord THEN [words |-> w.words + 1, inWord |-> TRUE]
    ELSE IF ~IsWordChar(char) THEN [w EXCEPT !.inWord = FALSE]
    ELSE w

RECURSIVE WordBody(_, _, _)
WordBody(chars, i, w) ==
    IF i > Len(chars) THEN w ELSE WordBody(chars, i + 1, WordStep(w, chars[i]))

\* n further iterations of the word loop over the same character
WordRun(w, char, n) == IF n = 0 THEN w ELSE WordStep(w, char)

\* tokens?: number -- <<>> is undefined, <<n>> is the number n
NoTokens == <<>>

\* calculateStats(inputText, false, model): the report without tokens
calculateStats(inputText) ==
    IF Length(inputText) = 0
      THEN [totalChars |-> 0, totalCharsNoSpaces |-> 0, words |-> 0, lines |-> 0,
            paragraphs |-> 0, chineseChars |-> 0, englishChars |-> 0, numbers |-> 0,
            punctuation |-> 0, spaces |-> 0, tokens |-> NoTokens]
    ELSE LET scanned == ScanRun(ScanBody(inputText.body, 1, ScanInit), PadChar, inputText.pad)
             w == WordRun(WordBody(inputText.body, 1, [words |-> 0, inWord |-> FALSE]),
                          PadChar, inputText.pad)
         IN  [totalChars |-> Length(inputText),
              totalCharsNoSpaces |-> Length(inputText) - scanned.spaces,
              words |-> w.words,
              lines |-> scanned.lines,
              paragraphs |-> IF scanned.inParagraph THEN scanned.paragraphs + 1
                                                    ELSE scanned.paragraphs,
              chineseChars |-> scanned.chineseChars,
              englishChars |-> scanned.englishChars,
              numbers |-> scanned.numbers,
              punctuation |-> scanned.punctuation,
              spaces |-> scanned.spaces,
              tokens |-> NoTokens]

\* the fields of a report other than tokens
BasicFields ==
    {"totalChars", "totalCharsNoSpaces", "words", "lines", "paragraphs",
     "chineseChars", "englishChars", "numbers", "punctuation", "spaces"}

\* useState initial value of stats; also the report clearText publishes
ZeroStats(tokens) ==
    [totalChars |-> 0, totalCharsNoSpaces |-> 0, words |-> 0, lines |-> 0,
     paragraphs |-> 0, chineseChars |-> 0, englishChars |-> 0, numbers |-> 0,
     punctuation |-> 0, spaces |-> 0, tokens |-> tokens]

----------------------------------------------------------------------------
(* calculateTokens (lines 61-105).                                         *)

\* SUPPORTED_MODELS: model value -> encoding
Encoding(modelValue) ==
    CASE modelValue \in {"gpt-4o", "gpt-4o-mini", "o1-preview", "o1-mini"} -> "o200k_base"
      [] modelValue \in {"gpt-4-turbo", "gpt-4", "gpt-3.5-turbo"} -> "cl100k_base"
      [] modelValue \in {"text-davinci-003", "text-davinci-002"} -> "p50k_base"
      [] modelValue = "text-davinci-001" -> "r50k_base"

\* the models the runs select among: one per encoding that the runs load
ModelChoices == {"gpt-4o", "gpt-4"}

\* tokenizer.encode(inputText).length of the gpt-tokenizer package: a stand-in
\* that tells texts and encodings apart (the real counts are the library's)
Tokenize(inputText, encoding) ==
    IF Length(inputText) = 0 THEN 0
    ELSE Length(inputText) + (CASE encoding = "o200k_base" -> 0
                                [] encoding = "cl100k_base" -> 1
                                [] encoding = "p50k_base" -> 2
                                [] encoding = "r50k_base" -> 3)

\* how a token computation ends: the encode call returns, the encode call
\* throws (inner catch, line 95), or the import rejects (outer catch, line 101)
Outcomes == {"ok", "encodeThrew", "importFailed"}

\* the value the promise returned by calculateTokens resolves to
MutFailureKeepsPending(inputText, modelValue, outcome) ==
    IF outcome = "ok" THEN Tokenize(inputText, Encoding(modelValue)) ELSE -1

calculateTokensResult(inputText, modelValue, outcome) ==
    IF outcome = "ok" THEN Tokenize(inputText, Encoding(modelValue)) ELSE 0

\* calculateTokens runs encode in a setTimeout(..., 10) callback (lines 88-100)
MutEncodeInline == FALSE

YieldsBeforeEncode == TRUE

----------------------------------------------------------------------------
(* updateStats (lines 214-287): the part that runs in the caller's turn.   *)

\* the debounce delay chosen from the text length (lines 220-229)
MutDelayInclusive(textLength) ==
    IF textLength >= 100000 THEN 2000
    ELSE IF textLength >= 50000 THEN 1000
    ELSE IF textLength >= 10000 THEN 600
    ELSE 300

DelayFor(textLength) ==
    IF textLength > 100000 THEN 2000
    ELSE IF textLength > 50000 THEN 1000
    ELSE IF textLength > 10000 THEN 600
    ELSE 300

\* if (debounceTimeoutRef.current) clearTimeout(debounceTimeoutRef.current)
MutNoClearTimeout(pending, ref) == pending

ClearTimeout(pending, ref) == {t \in pending : t.id # ref}

\* The scheduling state an updateStats call reads and writes.
Sched ==
    [ref |-> debounceTimeoutRef, timers |-> timers, nextId |-> nextTimerId,
     calculating |-> isCalculating, last |-> lastCall]

\* one call updateStats(inputText) of the closure that captured enable and model
MutUpdateStatsForgetsRef(s, inputText, enable, model) ==
    [ref |-> s.ref,
     timers |-> ClearTimeout(s.timers, s.ref) \cup
                {[id |-> s.nextId, inputText |-> inputText, enableTokenCount |-> enable,
                  selectedModel |-> model, delay |-> DelayFor(Length(inputText))]},
     nextId |-> s.nextId + 1,
     calculating |-> IF Length(inputText) > 10000 \/ enable THEN TRUE ELSE s.calculating,
     last |-> [cycle |-> s.nextId, inputText |-> inputText]]

UpdateStats(s, inputText, enable, model) ==
    [ref |-> s.nextId,
     timers |-> ClearTimeout(s.timers, s.ref) \cup
                {[id |-> s.nextId, inputText |-> inputText, enableTokenCount |-> enable,
                  selectedModel |-> model, delay |-> DelayFor(Length(inputText))]},
     nextId |-> s.nextId + 1,
     calculating |-> IF Length(inputText) > 10000 \/ enable THEN TRUE ELSE s.calculating,
     last |-> [cycle |-> s.nextId, inputText |-> inputText]]

\* the two effects that call updateStats after a render in which text or the
\* updateStats closure changed (lines 297-306)
RunEffects(s, txt, enable, model) ==
    LET s1 == UpdateStats(s, txt, enable, model)
    IN  IF Length(txt) # 0 THEN UpdateStats(s1, txt, enable, model) ELSE s1

\* writes the scheduling state back
SetSched(s) ==
    /\ debounceTimeoutRef' = s.ref
    /\ timers' = s.timers
    /\ nextTimerId' = s.nextId
    /\ isCalculating' = s.calculating
    /\ lastCall' = s.last

----------------------------------------------------------------------------
(* The history of publications.  Every setStats call appends an entry:     *)
(* kind is "basic", "pending", "tokens" or "clear"; cycle is the timer id  *)
(* of the updateStats call that published it (0 for clearText); gen and    *)
(* latest are the cycle and the text of the latest updateStats call at     *)
(* that moment; turn numbers the                                           *)
(* event-loop turns that published; live tells whether the component was   *)
(* still mounted; prev and report are stats before and after the call.     *)

NewTurn == IF log = <<>> THEN 1 ELSE log[Len(log)].turn + 1

Entry(kind, cycle, outcome, prev, report) ==
    [kind |-> kind, cycle |-> cycle, gen |-> lastCall.cycle,
     latest |-> lastCall.inputText, turn |-> NewTurn, live |-> mounted, outcome |-> outcome, prev |-> prev, report |-> report]

\* a state update of an unmounted component is dropped by React
SetState(new, old) == IF mounted THEN new ELSE old

----------------------------------------------------------------------------
(* updateStats: the timer callback (lines 236-286).                        *)

\* the setStats calls the callback makes before it awaits calculateTokens:
\* setStats(basicStats), then setStats(prev => ({...prev, tokens: -1}))
MutPendingOnly(basicStats, enable) ==
    IF enable THEN << [kind |-> "pending", report |-> [basicStats EXCEPT !.tokens = <<-1>>]] >>
    ELSE << [kind |-> "basic", report |-> basicStats] >>

TimerPublications(basicStats, enable) ==
    IF enable
      THEN << [kind |-> "basic", report |-> basicStats],
              [kind |-> "pending", report |-> [basicStats EXCEPT !.tokens = <<-1>>]] >>
    ELSE << [kind |-> "basic", report |-> basicStats] >>

\* setStats(prevStats => ({...prevStats, tokens})) (lines 254-257)
MutMergeIntoOwnBasic(prevStats, basicStats, tokens) ==
    [basicStats EXCEPT !.tokens = <<tokens>>]

MergeTokens(prevStats, basicStats, tokens) ==
    [prevStats EXCEPT !.tokens = <<tokens>>]

\* the entry of the cycle's final token publication
TokenEntry(task, outcome, prev) ==
    Entry("tokens", task.cycle, outcome, prev,
          MergeTokens(prev, task.basicStats,
                      calculateTokensResult(task.inputText, task.selectedModel, outcome)))

\* const basicStats = await calculateStats(inputText, false, selectedModel)
\* (line 239): includeTokens is false whatever the closure captured
MutStatsIncludeTokens(t) ==
    [calculateStats(t.inputText) EXCEPT
        !.tokens = IF t.enableTokenCount
                     THEN <<Tokenize(t.inputText, Encoding(t.selectedModel))>>
                   ELSE NoTokens]

BasicStatsOf(t) == calculateStats(t.inputText)

\* The 10 ms timers of calculateTokens (line 91) fire in the order in which
\* they were armed: a task in stage "yield" carries its place in that order.
NextArmed ==
    LET waiting == {task \in tokenTasks : task.stage = "yield"}
    IN  IF waiting = {} THEN 1
        ELSE 1 + (CHOOSE n \in {task.armed : task \in waiting} :
                     \A task \in waiting : task.armed <= n)

\* The debounce timer t fires.
TimerFires(t) ==
    /\ t \in timers
    /\ timers' = timers \ {t}
    /\ lastFired' = [cycle |-> t.id, enableTokenCount |-> t.enableTokenCount]
    /\ LET basicStats == BasicStatsOf(t)
           pubs == TimerPublications(basicStats, t.enableTokenCount)
           entries == [i \in 1..Len(pubs) |->
                          Entry(pubs[i].kind, t.id, "ok",
                                IF i = 1 THEN stats ELSE pubs[i - 1].report,
                                pubs[i].report)]
           after == pubs[Len(pubs)].report
           cached == Encoding(t.selectedModel) \in loadedEncodings
           task == [cycle |-> t.id, inputText |-> t.inputText,
                    selectedModel |-> t.selectedModel, basicStats |-> basicStats,
                    stage |-> IF cached THEN "yield" ELSE "import",
                    armed |-> IF cached THEN NextArmed ELSE 0]
       IN  IF ~t.enableTokenCount
             THEN /\ log' = log \o entries
                  /\ stats' = SetState(after, stats)
                  /\ isCalculating' = SetState(FALSE, isCalculating)
                  /\ tokenTasks' = tokenTasks
           ELSE IF cached /\ ~YieldsBeforeEncode
             THEN \E outcome \in {"ok", "encodeThrew"} :
                    LET e == TokenEntry(task, outcome, after)
                    IN  /\ log' = (log \o entries) \o <<e>>
                        /\ stats' = SetState(e.report, stats)
                        /\ isCalculating' = SetState(FALSE, isCalculating)
                        /\ tokenTasks' = tokenTasks
           ELSE /\ log' = log \o entries
                /\ stats' = SetState(after, stats)
                /\ isCalculating' = isCalculating
                /\ tokenTasks' = tokenTasks \cup {task}
    /\ UNCHANGED editorVars
    /\ UNCHANGED <<text, enableTokenCount, selectedModel, debounceTimeoutRef,
                   nextTimerId, loadedEncodings, mounted, events, lastCall>>

\* the continuation of the callback after calculateTokens resolved: the final
\* token publication and the finally block
Finish(task, outcome) ==
    LET e == TokenEntry(task, outcome, stats)
    IN  /\ log' = log \o <<e>>
        /\ stats' = SetState(e.report, stats)
        /\ isCalculating' = SetState(FALSE, isCalculating)
        /\ tokenTasks' = tokenTasks \ {task}

\* The dynamic import of the task's tokenizer settles (lines 70-85): on success
\* calculateTokens arms the 10 ms timer, on failure it returns 0.  Calls that
\* wait for the same module continue in the order in which they started to
\* wait; calls that wait for different modules continue in any order.
ImportSettles(task, ok) ==
    /\ task \in tokenTasks
    /\ task.stage = "import"
    /\ \A other \in tokenTasks :
          (other.stage = "import" /\ Encoding(other.selectedModel) = Encoding(task.selectedModel))
              => other.cycle >= task.cycle
    /\ IF ok
         THEN /\ loadedEncodings' = loadedEncodings \cup {Encoding(task.selectedModel)}
              /\ IF YieldsBeforeEncode
                   THEN /\ tokenTasks' = (tokenTasks \ {task}) \cup {[task EXCEPT !.stage = "yield", !.armed = NextArmed]}
                        /\ UNCHANGED <<log, stats, isCalculating>>
                 ELSE \E outcome \in {"ok", "encodeThrew"} : Finish(task, outcome)
       ELSE /\ loadedEncodings' = loadedEncodings
            /\ Finish(task, "importFailed")
    /\ UNCHANGED editorVars
    /\ UNCHANGED <<text, enableTokenCount, selectedModel, debounceTimeoutRef, timers,
                   nextTimerId, mounted, events, lastCall, lastFired>>

\* The 10 ms timer of calculateTokens fires: encode runs (lines 91-99) and the
\* callback of updateStats continues in the same turn.
EncodeRuns(task, outcome) ==
    /\ task \in tokenTasks
    /\ task.stage = "yield"
    /\ \A other \in tokenTasks : other.stage = "yield" => other.armed >= task.armed
    /\ outcome \in {"ok", "encodeThrew"}
    /\ Finish(task, outcome)
    /\ UNCHANGED editorVars
    /\ UNCHANGED <<text, enableTokenCount, selectedModel, debounceTimeoutRef, timers,
                   nextTimerId, loadedEncodings, mounted, events, lastCall, lastFired>>

----------------------------------------------------------------------------
(* Event handlers, each with the render and the effects it causes.         *)

\* handleTextChange (lines 290-294): the textarea reports a changed value
handleTextChange(newText) ==
    /\ mounted
    /\ events < MaxEvents
    /\ newText # text
    /\ text' = newText
    /\ SetSched(RunEffects(UpdateStats(Sched, newText, enableTokenCount, selectedModel),
                           newText, enableTokenCount, selectedModel))
    /\ events' = events + 1
    /\ UNCHANGED editorVars
    /\ UNCHANGED <<enableTokenCount, selectedModel, stats, tokenTasks, loadedEncodings,
                   mounted, lastFired, log>>

\* importFile (lines 349-366): reader.onload delivers the file's content; the
\* effects run only if the text changed
importFile(content) ==
    /\ mounted
    /\ events < MaxEvents
    /\ text' = content
    /\ LET s1 == UpdateStats(Sched, content, enableTokenCount, selectedModel)
       IN  SetSched(IF content # text
                      THEN RunEffects(s1, content, enableTokenCount, selectedModel)
                    ELSE s1)
    /\ events' = events + 1
    /\ UNCHANGED editorVars
    /\ UNCHANGED <<enableTokenCount, selectedModel, stats, tokenTasks, loadedEncodings,
                   mounted, lastFired, log>>

\* the checkbox (line 438): setEnableTokenCount, then the effects with the new closure
setEnableTokenCount(checked) ==
    /\ mounted
    /\ events < MaxEvents
    /\ checked # enableTokenCount
    /\ enableTokenCount' = checked
    /\ SetSched(RunEffects(Sched, text, checked, selectedModel))
    /\ events' = events + 1
    /\ UNCHANGED editorVars
    /\ UNCHANGED <<text, selectedModel, stats, tokenTasks, loadedEncodings, mounted,
                   lastFired, log>>

\* the model select (lines 444-447), rendered only while token counting is on
setSelectedModel(modelValue) ==
    /\ mounted
    /\ events < MaxEvents
    /\ enableTokenCount
    /\ modelValue # selectedModel
    /\ selectedModel' = modelValue
    /\ SetSched(RunEffects(Sched, text, enableTokenCount, modelValue))
    /\ events' = events + 1
    /\ UNCHANGED editorVars
    /\ UNCHANGED <<text, enableTokenCount, stats, tokenTasks, loadedEncodings, mounted,
                   lastFired, log>>

\* clearText (lines 329-346), confirmed by the user: only effect 1 calls
\* updateStats, and only if the text was not empty already
clearText ==
    /\ mounted
    /\ events < MaxEvents
    /\ text' = EmptyText
    /\ LET report == ZeroStats(IF enableTokenCount THEN <<0>> ELSE NoTokens)
       IN  /\ stats' = report
           /\ log' = Append(log, Entry("clear", 0, "ok", stats, report))
    /\ IF text # EmptyText
         THEN SetSched(UpdateStats(Sched, EmptyText, enableTokenCount, selectedModel))
       ELSE UNCHANGED <<debounceTimeoutRef, timers, nextTimerId, isCalculating, lastCall>>
    /\ events' = events + 1
    /\ UNCHANGED editorVars
    /\ UNCHANGED <<enableTokenCount, selectedModel, tokenTasks, loadedEncodings, mounted,
                   lastFired>>

\* the cleanup of the last effect (lines 309-315) when the component unmounts
Unmount ==
    /\ mounted
    /\ mounted' = FALSE
    /\ timers' = ClearTimeout(timers, debounceTimeoutRef)
    /\ UNCHANGED editorVars
    /\ UNCHANGED <<text, isCalculating, enableTokenCount, selectedModel, stats,
                   debounceTimeoutRef, nextTimerId, tokenTasks, loadedEncodings, events,
                   lastCall, lastFired, log>>

----------------------------------------------------------------------------
(* HtmlEditor (src/src/components/tools/HtmlEditor.tsx, lines 1-368).       *)
(* htmlEditor.timers is the queue of armed setTimeout callbacks, each with  *)
(* the content it will write: all of them wait 300 ms, so they fire in the  *)
(* order in which they were armed.  document is the content of the preview  *)
(* iframe; writes counts the doc.write calls since the last change of the   *)
(* content.                                                                 *)

\* Bound on the number of content changes of a run of HtmlEditor.
MaxHtmlEvents == 3

\* defaultHtml of the page, abbreviated
DefaultHtml == "<!DOCTYPE html>"

HtmlContents == {"", "<p>1</p>", "<p>2</p>"}

\* updatePreview(htmlContent), lines 68-82: a new debounced function, with a
\* timeout variable of its own that holds null, is created by every call; its
\* clearTimeout never runs, and its setTimeout arms one more callback
updatePreview(pending, htmlContent) == Append(pending, htmlContent)

\* the effect of lines 91-95 after a render with a changed content
PreviewEffect(pending, isMounted, content) ==
    IF isMounted /\ content # "" THEN updatePreview(pending, content) ELSE pending

\* the component after mounting: the second render has shown the iframe and
\* the effect has called updatePreview(initialValue)
HtmlEditorInit ==
    [content |-> DefaultHtml, isMounted |-> TRUE,
     timers |-> PreviewEffect(<<>>, TRUE, DefaultHtml),
     document |-> "", events |-> 0, writes |-> 0]

\* handleContentChange (lines 85-88): the textarea reports a changed value
handleContentChange(value) ==
    /\ htmlEditor.events < MaxHtmlEvents
    /\ value # htmlEditor.content
    /\ htmlEditor' =
         [htmlEditor EXCEPT
            !.content = value,
            !.timers = PreviewEffect(updatePreview(@, value), htmlEditor.isMounted, value),
            !.events = @ + 1,
            !.writes = 0]
    /\ UNCHANGED <<counterVars, plantUMLEditor, mermaidEditor, zoom, wordToMarkdownEditor>>

\* importHtml (lines 111-130): the FileReader delivers the content of a file
importHtml(content) ==
    /\ htmlEditor.events < MaxHtmlEvents
    /\ htmlEditor' =
         [htmlEditor EXCEPT
            !.content = content,
            !.timers = IF content # htmlEditor.content
                         THEN PreviewEffect(@, htmlEditor.isMounted, content) ELSE @,
            !.events = @ + 1,
            !.writes = 0]
    /\ UNCHANGED <<counterVars, plantUMLEditor, mermaidEditor, zoom, wordToMarkdownEditor>>

\* clearContent (lines 144-151), confirmed by the user; formatHtml (lines
\* 171-202) sets the content the same way, without a call of updatePreview
clearContent ==
    /\ htmlEditor.events < MaxHtmlEvents
    /\ htmlEditor' =
         [htmlEditor EXCEPT
            !.content = "",
            !.timers = IF "" # htmlEditor.content
                         THEN PreviewEffect(@, htmlEditor.isMounted, "") ELSE @,
            !.events = @ + 1,
            !.writes = 0]
    /\ UNCHANGED <<counterVars, plantUMLEditor, mermaidEditor, zoom, wordToMarkdownEditor>>

\* the oldest armed callback runs (lines 69-80): doc.open, doc.write, doc.close
PreviewTimerFires ==
    /\ htmlEditor.timers # <<>>
    /\ htmlEditor' =
         [htmlEditor EXCEPT
            !.timers = Tail(@),
            !.document = Head(htmlEditor.timers),
            !.writes = @ + 1]
    /\ UNCHANGED <<counterVars, plantUMLEditor, mermaidEditor, zoom, wordToMarkdownEditor>>

NextHtml ==
    \/ \E value \in HtmlContents : handleContentChange(value)
    \/ \E content \in HtmlContents : importHtml(content)
    \/ clearContent
    \/ PreviewTimerFires

----------------------------------------------------------------------------
(* PlantUMLEditor (src/unnamed/part_004).  plantUMLEditor.timer is the     *)
(* armed debounce timer (<<>> when none), with the code it will render and *)
(* the encoderInstance its renderPlantUML closure captured; requests are   *)
(* the fetches in flight; preview and error carry the code they belong to; *)
(* renderLog lists the renderPlantUML calls that got past the guard of     *)
(* lines 54-59, lastRender is the code of the latest renderPlantUML call.  *)

\* Bound on the number of user events of a run of PlantUMLEditor.
MaxPlantEvents == 2

\* code values: empty, blank, and two diagrams
PlantCodes == {"", " ", "@startuml A", "@startuml B"}

\* defaultPlantUMLCode of the page, abbreviated
DefaultPlantUMLCode == "@startuml A"

\* String.prototype.trim on the code values
Trim(plantUMLCode) == IF plantUMLCode = " " THEN "" ELSE plantUMLCode

NoError == <<>>

\* renderPlantUML(plantUMLCode) of a closure that captured encoderInstance
\* (lines 53-199), up to its first await: the guard, the placeholder for a
\* blank code, setError(null), setIsLoading(true) and the fetch.  The preview
\* element is mounted with the component, so previewRef.current is set; the
\* encoder is given a string and does not throw.
renderPlantUML(p, encoderInstance, plantUMLCode, by) ==
    IF Trim(plantUMLCode) = ""
      THEN [p EXCEPT !.preview = [kind |-> "placeholder", code |-> plantUMLCode],
                     !.lastRender = <<plantUMLCode>>]
    ELSE IF encoderInstance = "null" THEN p
    ELSE [p EXCEPT !.error = NoError,
                   !.isLoading = TRUE,
                   !.requests = @ \cup {[id |-> p.nextRequest, code |-> plantUMLCode]},
                   !.nextRequest = @ + 1,
                   !.renderLog = Append(@, [code |-> plantUMLCode, by |-> by]),
                   !.lastRender = <<plantUMLCode>>]

\* the effect of lines 217-221, run after a render in which encoderInstance,
\* code or renderPlantUML changed
InitialRenderEffect(p, by) ==
    IF p.encoderInstance # "null" /\ p.code # ""
      THEN renderPlantUML(p, p.encoderInstance, p.code, by)
    ELSE p

\* the component after mounting: initEncoder waits for the import of
\* plantuml-encoder, the render effect has found no encoder
PlantUMLEditorInit ==
    [code |-> DefaultPlantUMLCode, error |-> NoError, isLoading |-> TRUE,
     encoderInstance |-> "null", importing |-> TRUE,
     timer |-> <<>>, requests |-> {}, nextRequest |-> 1,
     preview |-> [kind |-> "none", code |-> ""],
     events |-> 0, renderLog |-> <<>>, lastRender |-> <<>>]

\* the import of plantuml-encoder settles (lines 34-49)
EncoderImportSettles(ok) ==
    /\ plantUMLEditor.importing
    /\ plantUMLEditor' =
         IF ok
           THEN InitialRenderEffect(
                    [plantUMLEditor EXCEPT !.importing = FALSE, !.encoderInstance = "loaded",
                                           !.isLoading = FALSE], "load")
         ELSE [plantUMLEditor EXCEPT !.importing = FALSE, !.isLoading = FALSE,
                                     !.error = [kind |-> "encoderFailed", code |-> ""]]
    /\ UNCHANGED <<counterVars, htmlEditor, mermaidEditor, zoom, wordToMarkdownEditor>>

\* handleCodeChange(newCode) (lines 202-214), called by the textarea, by
\* clearCode, by the file import and by the templates, with the render and the
\* effect that follow when the code changed
handleCodeChange(newCode) ==
    /\ plantUMLEditor.events < MaxPlantEvents
    /\ LET armed == [plantUMLEditor EXCEPT
                       !.code = newCode,
                       !.timer = <<[code |-> newCode,
                                    encoderInstance |-> plantUMLEditor.encoderInstance]>>,
                       !.events = @ + 1]
       IN  plantUMLEditor' =
             IF newCode # plantUMLEditor.code THEN InitialRenderEffect(armed, "change")
             ELSE armed
    /\ UNCHANGED <<counterVars, htmlEditor, mermaidEditor, zoom, wordToMarkdownEditor>>

\* the debounce timer fires, 500 ms after the last handleCodeChange (lines 211-213)
DebounceFires ==
    /\ plantUMLEditor.timer # <<>>
    /\ LET t == plantUMLEditor.timer[1]
       IN  plantUMLEditor' =
             renderPlantUML([plantUMLEditor EXCEPT !.timer = <<>>],
                            t.encoderInstance, t.code, "timer")
    /\ UNCHANGED <<counterVars, htmlEditor, mermaidEditor, zoom, wordToMarkdownEditor>>

\* the retry button of the error banner (line 513)
Retry ==
    /\ plantUMLEditor.events < MaxPlantEvents
    /\ plantUMLEditor.error # NoError
    /\ plantUMLEditor' =
         renderPlantUML([plantUMLEditor EXCEPT !.events = @ + 1],
                        plantUMLEditor.encoderInstance, plantUMLEditor.code, "retry")
    /\ UNCHANGED <<counterVars, htmlEditor, mermaidEditor, zoom, wordToMarkdownEditor>>

\* how a fetch ends: an SVG, an SVG that reports a syntax error, or a failure
\* (network error, HTTP status, abort after 10 s)
Responses == {"svg", "syntaxError", "fetchError"}

\* the fetch of request r settles and renderPlantUML continues (lines 77-181)
ServerResponds(r, response) ==
    /\ r \in plantUMLEditor.requests
    /\ plantUMLEditor' =
         [plantUMLEditor EXCEPT
            !.requests = @ \ {r},
            !.isLoading = FALSE,
            !.error = IF response = "svg" THEN @ ELSE [kind |-> response, code |-> r.code],
            !.preview = [kind |-> response, code |-> r.code]]
    /\ UNCHANGED <<counterVars, htmlEditor, mermaidEditor, zoom, wordToMarkdownEditor>>

NextPlantUML ==
    \/ \E ok \in BOOLEAN : EncoderImportSettles(ok)
    \/ \E newCode \in PlantCodes : handleCodeChange(newCode)
    \/ DebounceFires
    \/ Retry
    \/ \E r \in plantUMLEditor.requests : \E response \in Responses : ServerResponds(r, response)

----------------------------------------------------------------------------
(* MermaidEditor with the debounce function of useMemo (src/unnamed/       *)
(* part_002), mounted by MermaidPage (src/unnamed/part_005).               *)
(* mermaidEditor.timeout is the timer of debouncedRender (<<>> when none)  *)
(* with its value and, as history, whether the library was loaded when it  *)
(* was armed; initialTimer is the 100 ms timer of initMermaid; renders     *)
(* lists the calls that reached mermaidInstance.render; fired lists the    *)
(* runs of the debounce callback.                                          *)

\* Bound on the number of user events of a run of MermaidEditor.
MaxMermaidEvents == 3

MermaidCodes == {"", " ", "graph A", "graph B"}

\* defaultMermaidCode of MermaidPage, abbreviated
DefaultMermaidCode == "graph TD"

\* mermaidInstance as the first render of the component sees it (line 16)
FirstRenderInstance == "null"

\* The renderMermaid that debouncedRender and initMermaid call.  Both were
\* created during the first render (useMemo and useEffect with no
\* dependencies, lines 19-27 and 30-82), so the renderMermaid they name is the
\* callback of that render, whose mermaidInstance is the one of that render.
CapturedInstance == FirstRenderInstance

\* renderMermaid(mermaidCode) of a closure that captured mermaidInstance
\* (lines 85-183), up to its await
renderMermaid(m, mermaidInstance, mermaidCode) ==
    IF Trim(mermaidCode) = ""
      THEN [m EXCEPT !.preview = [kind |-> "placeholder", code |-> mermaidCode]]
    ELSE IF mermaidInstance = "null" THEN m
    ELSE [m EXCEPT !.error = NoError,
                   !.isLoading = TRUE,
                   !.preview = [kind |-> "blank", code |-> mermaidCode],
                   !.renders = Append(@, mermaidCode)]

\* the component after mounting: initMermaid waits for the import of mermaid
MermaidEditorInit ==
    [code |-> DefaultMermaidCode, error |-> NoError, isLoading |-> TRUE,
     mermaidInstance |-> "null", importing |-> TRUE,
     timeout |-> <<>>, initialTimer |-> <<>>,
     preview |-> [kind |-> "none", code |-> ""],
     events |-> 0, renders |-> <<>>, fired |-> <<>>]

\* the import of mermaid settles (lines 30-82): initMermaid still sees the
\* code of the first render
MermaidImportSettles(ok) ==
    /\ mermaidEditor.importing
    /\ mermaidEditor' =
         IF ok
           THEN [mermaidEditor EXCEPT
                   !.importing = FALSE, !.mermaidInstance = "loaded", !.isLoading = FALSE,
                   !.initialTimer = IF Trim(DefaultMermaidCode) # ""
                                      THEN <<DefaultMermaidCode>> ELSE <<>>]
         ELSE [mermaidEditor EXCEPT
                   !.importing = FALSE, !.isLoading = FALSE,
                   !.error = [kind |-> "loadFailed", code |-> ""]]
    /\ UNCHANGED <<counterVars, htmlEditor, plantUMLEditor, zoom,
                   wordToMarkdownEditor>>

\* the 100 ms timer of initMermaid fires (line 72)
InitialRenderFires ==
    /\ mermaidEditor.initialTimer # <<>>
    /\ mermaidEditor' =
         renderMermaid([mermaidEditor EXCEPT !.initialTimer = <<>>],
                       CapturedInstance, mermaidEditor.initialTimer[1])
    /\ UNCHANGED <<counterVars, htmlEditor, plantUMLEditor, zoom,
                   wordToMarkdownEditor>>

\* handleCodeChange(value) of MermaidEditor (lines 186-189): setCode and
\* debouncedRender(value), which clears its timer and arms a new one
MermaidCodeChange(value) ==
    /\ mermaidEditor.events < MaxMermaidEvents
    /\ mermaidEditor' =
         [mermaidEditor EXCEPT
            !.code = value,
            !.timeout = <<[value |-> value,
                           loaded |-> mermaidEditor.mermaidInstance = "loaded"]>>,
            !.events = @ + 1]
    /\ UNCHANGED <<counterVars, htmlEditor, plantUMLEditor, zoom,
                   wordToMarkdownEditor>>

\* the clear button (lines 531-540): setCode(''), setError(null) and the
\* placeholder; the timer of debouncedRender is left alone
MermaidClear ==
    /\ mermaidEditor.events < MaxMermaidEvents
    /\ mermaidEditor' =
         [mermaidEditor EXCEPT
            !.code = "", !.error = NoError,
            !.preview = [kind |-> "placeholder", code |-> ""],
            !.events = @ + 1]
    /\ UNCHANGED <<counterVars, htmlEditor, plantUMLEditor, zoom,
                   wordToMarkdownEditor>>

\* the timer of debouncedRender fires, 500 ms after the last change (lines 23-25)
DebouncedRenderFires ==
    /\ mermaidEditor.timeout # <<>>
    /\ LET t == mermaidEditor.timeout[1]
           after == renderMermaid([mermaidEditor EXCEPT !.timeout = <<>>],
                                  CapturedInstance, t.value)
       IN  mermaidEditor' =
             [after EXCEPT !.fired = Append(@, [value |-> t.value, loaded |-> t.loaded,
                                                 rendered |-> after.renders # mermaidEditor.renders])]
    /\ UNCHANGED <<counterVars, htmlEditor, plantUMLEditor, zoom,
                   wordToMarkdownEditor>>

NextMermaid ==
    \/ \E ok \in BOOLEAN : MermaidImportSettles(ok)
    \/ InitialRenderFires
    \/ \E value \in MermaidCodes : MermaidCodeChange(value)
    \/ MermaidClear
    \/ DebouncedRenderFires

----------------------------------------------------------------------------
(* The zoom of PlantUMLEditor (src/unnamed/part_004, lines 24-28 and       *)
(* 232-252) and of the zoomable MermaidEditor (src/src/components/tools/   *)
(* HtmlEditor.tsx, lines 392-396 and 582-612).  One page of the toolbox is *)
(* on display at a time; zoom.editor is the editor it shows.  Factors are  *)
(* counted in hundredths: 100 is the factor 1.  zoom.last records the      *)
(* latest handler and the factor it found.                                 *)

minZoom == 10
maxZoom == 500
zoomStep == 10
\* useState(1), and setZoom(1) of handleZoomReset
initialZoom == 100

ZoomEditors == {"PlantUMLEditor", "MermaidEditor"}

\* The sum prev + zoomStep is a floating-point sum and need not be the exact
\* decimal (0.1 + 0.2 is 0.30000000000000004): the model lets it miss the exact
\* value by at most one hundredth, either way.
RoundingErrors == {-1, 0, 1}

Min(a, b) == IF a <= b THEN a ELSE b
Max(a, b) == IF a >= b THEN a ELSE b

MutZoomInUnclamped(prev, err) == prev + zoomStep + err

\* Math.min(prev + zoomStep, maxZoom)
ZoomedIn(prev, err) == Min(prev + zoomStep + err, maxZoom)

\* Math.max(prev - zoomStep, minZoom)
ZoomedOut(prev, err) == Max(prev - zoomStep + err, minZoom)

\* Math.max(minZoom, Math.min(maxZoom, prev + delta)), delta by the sign of deltaY
Wheeled(prev, deltaY, err) ==
    LET delta == IF deltaY > 0 THEN 0 - zoomStep ELSE zoomStep
    IN  Max(minZoom, Min(maxZoom, prev + delta + err))

\* the modifier a wheel event needs: e.ctrlKey in PlantUMLEditor, e.ctrlKey ||
\* e.metaKey in MermaidEditor
WheelZooms(editor, ctrlKey, metaKey) ==
    IF editor = "PlantUMLEditor" THEN ctrlKey ELSE ctrlKey \/ metaKey

ZoomInit(editor) ==
    [editor |-> editor, factor |-> initialZoom, last |-> [op |-> "mount", before |-> initialZoom]]

\* the user opens the page of a zoomable editor: the editor mounts with zoom 1
OpenPage(editor) ==
    /\ editor # zoom.editor
    /\ zoom' = ZoomInit(editor)
    /\ UNCHANGED <<counterVars, htmlEditor, plantUMLEditor, mermaidEditor,
                   wordToMarkdownEditor>>

handleZoomIn ==
    /\ \E err \in RoundingErrors :
         zoom' = [zoom EXCEPT !.factor = ZoomedIn(@, err),
                              !.last = [op |-> "handleZoomIn", before |-> zoom.factor]]
    /\ UNCHANGED <<counterVars, htmlEditor, plantUMLEditor, mermaidEditor,
                   wordToMarkdownEditor>>

handleZoomOut ==
    /\ \E err \in RoundingErrors :
         zoom' = [zoom EXCEPT !.factor = ZoomedOut(@, err),
                              !.last = [op |-> "handleZoomOut", before |-> zoom.factor]]
    /\ UNCHANGED <<counterVars, htmlEditor, plantUMLEditor, mermaidEditor,
                   wordToMarkdownEditor>>

handleZoomReset ==
    /\ zoom' = [zoom EXCEPT !.factor = initialZoom,
                            !.last = [op |-> "handleZoomReset", before |-> zoom.factor]]
    /\ UNCHANGED <<counterVars, htmlEditor, plantUMLEditor, mermaidEditor,
                   wordToMarkdownEditor>>

handleWheel(ctrlKey, metaKey, deltaY) ==
    /\ IF WheelZooms(zoom.editor, ctrlKey, metaKey)
         THEN \E err \in RoundingErrors :
                zoom' = [zoom EXCEPT !.factor = Wheeled(@, deltaY, err),
                                     !.last = [op |-> "handleWheel", before |-> zoom.factor]]
       ELSE zoom' = zoom
    /\ UNCHANGED <<counterVars, htmlEditor, plantUMLEditor, mermaidEditor,
                   wordToMarkdownEditor>>

NextZoom ==
    \/ \E editor \in ZoomEditors : OpenPage(editor)
    \/ handleZoomIn
    \/ handleZoomOut
    \/ handleZoomReset
    \/ \E ctrlKey \in BOOLEAN, metaKey \in BOOLEAN, deltaY \in {-100, 0, 100} :
          handleWheel(ctrlKey, metaKey, deltaY)

----------------------------------------------------------------------------
(* WordToMarkdownEditor (src/src/components/tools/WordToMarkdownEditor.tsx). *)
(* A file is its name, a sequence of characters, and its document.         *)
(* wordToMarkdownEditor.job is the conversion in flight (<<>> when none);  *)
(* conversionResult is <<>> for null; last records the latest handler, the *)
(* file it was given and the state it found.                               *)

\* Bound on the number of user events of a run of WordToMarkdownEditor.
MaxWordEvents == 3

\* a.docx, A.DOCX, a.Docx, a.doc, docx (no dot) and a.docx.txt
FileNames ==
    { <<"a", ".", "d", "o", "c", "x">>,
      <<"A", ".", "D", "O", "C", "X">>,
      <<"a", ".", "D", "o", "c", "x">>,
      <<"a", ".", "d", "o", "c">>,
      <<"d", "o", "c", "x">>,
      <<"a", ".", "d", "o", "c", "x", ".", "t", "x", "t">> }

Documents == {"report", "notes"}

Files == [name : FileNames, document : Documents]

\* String.prototype.toLowerCase on the letters of the file names
LowerCase(char) ==
    CASE char = "A" -> "a"
      [] char = "D" -> "d"
      [] char = "O" -> "o"
      [] char = "C" -> "c"
      [] char = "X" -> "x"
      [] OTHER -> char

toLowerCase(name) == [i \in DOMAIN name |-> LowerCase(name[i])]

\* String.prototype.endsWith
endsWith(name, suffix) ==
    /\ Len(name) >= Len(suffix)
    /\ SubSeq(name, Len(name) - Len(suffix) + 1, Len(name)) = suffix

MutAcceptsCaseSensitive(name) == endsWith(name, <<".", "d", "o", "c", "x">>)

\* file.name.toLowerCase().endsWith('.docx') (line 103)
Accepts(name) == endsWith(toLowerCase(name), <<".", "d", "o", "c", "x">>)

\* the message of line 104: "please choose a Word document in .docx format"
NotDocxMessage == "not a .docx Word document"

\* the Markdown that mammoth and turndown make of a document (lines 114-194)
MarkdownOf(document) == IF document = "report" THEN "# Report" ELSE "# Notes"

WordToMarkdownEditorInit ==
    [markdown |-> "", isConverting |-> FALSE, conversionResult |-> <<>>, error |-> NoError,
     job |-> <<>>, events |-> 0,
     last |-> [op |-> "mount", file |-> <<>>, markdown |-> "", conversionResult |-> <<>>]]

\* what a handler found: the file it was given, markdown and conversionResult
Found(op, file) ==
    [op |-> op, file |-> file, markdown |-> wordToMarkdownEditor.markdown,
     conversionResult |-> wordToMarkdownEditor.conversionResult]

\* handleFileUpload(file) up to its first await (lines 102-114); the upload
\* buttons are disabled or hidden while isConverting (lines 312, 374)
handleFileUpload(file) ==
    /\ wordToMarkdownEditor.events < MaxWordEvents
    /\ ~wordToMarkdownEditor.isConverting
    /\ wordToMarkdownEditor' =
         IF ~Accepts(file.name)
           THEN [wordToMarkdownEditor EXCEPT
                   !.error = NotDocxMessage,
                   !.events = @ + 1,
                   !.last = Found("handleFileUpload", <<file>>)]
         ELSE [wordToMarkdownEditor EXCEPT
                   !.isConverting = TRUE,
                   !.error = NoError,
                   !.conversionResult = <<>>,
                   !.job = <<file>>,
                   !.events = @ + 1,
                   !.last = Found("handleFileUpload", <<file>>)]
    /\ UNCHANGED <<counterVars, htmlEditor, plantUMLEditor, mermaidEditor, zoom>>

\* the conversion ends: either it produced Markdown (lines 196-204) or one of
\* its steps threw (lines 206-208); the finally block runs in both cases
ConversionSettles(outcome) ==
    /\ wordToMarkdownEditor.job # <<>>
    /\ LET file == wordToMarkdownEditor.job[1]
           done == [wordToMarkdownEditor EXCEPT
                      !.isConverting = FALSE,
                      !.job = <<>>,
                      !.last = Found(outcome, <<file>>)]
       IN  wordToMarkdownEditor' =
             IF outcome = "converted"
               THEN [done EXCEPT !.markdown = MarkdownOf(file.document),
                                 !.conversionResult = <<[markdown |-> MarkdownOf(file.document)]>>]
             ELSE [done EXCEPT !.error = "conversion failed"]
    /\ UNCHANGED <<counterVars, htmlEditor, plantUMLEditor, mermaidEditor, zoom>>

\* the Markdown textarea, shown when a result is on display (lines 386-392)
editMarkdown(value) ==
    /\ wordToMarkdownEditor.events < MaxWordEvents
    /\ ~wordToMarkdownEditor.isConverting
    /\ wordToMarkdownEditor.markdown # ""
    /\ wordToMarkdownEditor' =
         [wordToMarkdownEditor EXCEPT
            !.markdown = value, !.events = @ + 1, !.last = Found("editMarkdown", <<>>)]
    /\ UNCHANGED <<counterVars, htmlEditor, plantUMLEditor, mermaidEditor, zoom>>

NextWord ==
    \/ \E file \in Files : handleFileUpload(file)
    \/ \E outcome \in {"converted", "threw"} : ConversionSettles(outcome)
    \/ \E value \in {"", "# Edited"} : editMarkdown(value)

\* the initial state of the other tools
EditorsInit ==
    /\ wordToMarkdownEditor = WordToMarkdownEditorInit
    /\ zoom = ZoomInit("PlantUMLEditor")
    /\ mermaidEditor = MermaidEditorInit
    /\ plantUMLEditor = PlantUMLEditorInit
    /\ htmlEditor = HtmlEditorInit

----------------------------------------------------------------------------
\* the texts the user types or imports: empty, short, and longer than 10,000
Texts == {EmptyText, Text(<<"a", "SP", "b">>, 0), Text(<<"a", "LF">>, 10000)}

\* the component after mounting with initialValue = '': effect 1 has called
\* updateStats(''), effect 2 has skipped the empty text
Init ==
    /\ text = EmptyText
    /\ isCalculating = FALSE
    /\ enableTokenCount = FALSE
    /\ selectedModel = "gpt-4o"
    /\ stats = ZeroStats(NoTokens)
    /\ debounceTimeoutRef = 1
    /\ timers = {[id |-> 1, inputText |-> EmptyText, enableTokenCount |-> FALSE,
                  selectedModel |-> "gpt-4o", delay |-> DelayFor(0)]}
    /\ nextTimerId = 2
    /\ tokenTasks = {}
    /\ loadedEncodings = {}
    /\ mounted = TRUE
    /\ events = 0
    /\ lastCall = [cycle |-> 1, inputText |-> EmptyText]
    /\ lastFired = [cycle |-> 0, enableTokenCount |-> FALSE]
    /\ log = <<>>
    /\ EditorsInit

Next ==
    \/ \E newText \in Texts : handleTextChange(newText)
    \/ \E content \in Texts : importFile(content)
    \/ \E checked \in BOOLEAN : setEnableTokenCount(checked)
    \/ \E modelValue \in ModelChoices : setSelectedModel(modelValue)
    \/ clearText
    \/ Unmount
    \/ \E t \in timers : TimerFires(t)
    \/ \E task \in tokenTasks : \E ok \in BOOLEAN : ImportSettles(task, ok)
    \/ \E task \in tokenTasks : \E outcome \in Outcomes : EncodeRuns(task, outcome)

Spec == Init /\ [][Next]_vars

----------------------------------------------------------------------------
(* The delay tiers are exercised by a second specification: the same       *)
(* handlers and timer callback, fed with texts whose lengths lie on both   *)
(* sides of every threshold.                                               *)

TierTexts ==
    {Text(<<>>, n) : n \in {0, 1, 9999, 10000, 10001, 50000, 50001, 100000, 100001}}

NextDelay ==
    \/ \E newText \in TierTexts : handleTextChange(newText)
    \/ \E content \in TierTexts : importFile(content)
    \/ \E t \in timers : TimerFires(t)

SpecDelay == Init /\ [][NextDelay]_vars

----------------------------------------------------------------------------
(* calculateStats is exercised by a third specification: the component is  *)
(* mounted with an initial value drawn from every string of at most        *)
(* MaxStatLen code units over StatAlphabet and from a few longer examples, *)
(* the mount effects schedule the computation, and the timer callback      *)
(* publishes the report.                                                   *)

\* Bound on the length of the enumerated strings.
MaxStatLen == 4

\* one code unit of every kind the scans tell apart: space, tab, line feed,
\* carriage return, letter, digit, CJK ideograph, punctuation, and a BMP
\* character of no class (U+FF01, the fullwidth exclamation mark)
StatAlphabet == {"SP", "TAB", "LF", "CR", "a", "1", "U4E00", "!", "UFF01"}

\* "a b\nc", "Z", the greeting with two ideographs, "line1\n\nline2", and two
\* strings with U+1F600 (the surrogate pair D83D DE00)
ExampleBodies ==
    { <<"a", "SP", "b", "LF", "c">>,
      <<"Z">>,
      <<"U4F60", "U597D", "SP", "w", "o", "r", "l", "d", "SP", "1", "2", "3", "!">>,
      <<"l", "i", "n", "e", "1", "LF", "LF", "l", "i", "n", "e", "2">>,
      <<"UD83D", "UDE00">>,
      <<"a", "SP", "UD83D", "UDE00">> }

StatTexts ==
    {Text(body, 0) : body \in (UNION {[1..k -> StatAlphabet] : k \in 0..MaxStatLen})
                              \cup ExampleBodies}

\* the component after mounting with initialValue = initialValue: effect 1 and,
\* for a non-empty text, effect 2 have called updateStats
InitStats ==
    \E initialValue \in StatTexts :
        LET s == RunEffects([ref |-> 0, timers |-> {}, nextId |-> 1, calculating |-> FALSE,
                             last |-> [cycle |-> 0, inputText |-> EmptyText]],
                            initialValue, FALSE, "gpt-4o")
        IN  /\ text = initialValue
            /\ isCalculating = s.calculating
            /\ enableTokenCount = FALSE
            /\ selectedModel = "gpt-4o"
            /\ stats = ZeroStats(NoTokens)
            /\ debounceTimeoutRef = s.ref
            /\ timers = s.timers
            /\ nextTimerId = s.nextId
            /\ tokenTasks = {}
            /\ loadedEncodings = {}
            /\ mounted = TRUE
            /\ events = 0
            /\ lastCall = s.last
            /\ lastFired = [cycle |-> 0, enableTokenCount |-> FALSE]
            /\ log = <<>>
            /\ EditorsInit

NextStats == \E t \in timers : TimerFires(t)

SpecStats == InitStats /\ [][NextStats]_vars

----------------------------------------------------------------------------
(* The other tools, each started from its mounted state.                   *)

SpecHtml == Init /\ [][NextHtml]_vars

SpecWord == Init /\ [][NextWord]_vars

SpecZoom == Init /\ [][NextZoom]_vars

SpecMermaid == Init /\ [][NextMermaid]_vars

SpecPlantUML == Init /\ [][NextPlantUML]_vars

----------------------------------------------------------------------------
(* Properties.                                                             *)

----------------------------------------------------------------------------
(* The component mounted with a non-empty initialValue (line 38): effect 1 *)
(* and effect 2 have both called updateStats(initialValue), the second     *)
(* call cancelling the timer of the first.                                 *)

PrefilledText == Text(<<"a", "SP", "b">>, 0)

InitPrefilled ==
    LET unscheduled == [ref |-> 0, timers |-> {}, nextId |-> 1, calculating |-> FALSE,
                        last |-> [cycle |-> 0, inputText |-> EmptyText]]
        s == RunEffects(unscheduled, PrefilledText, FALSE, "gpt-4o")
    IN  /\ text = PrefilledText
        /\ isCalculating = s.calculating
        /\ enableTokenCount = FALSE
        /\ selectedModel = "gpt-4o"
        /\ stats = ZeroStats(NoTokens)
        /\ debounceTimeoutRef = s.ref
        /\ timers = s.timers
        /\ nextTimerId = s.nextId
        /\ tokenTasks = {}
        /\ loadedEncodings = {}
        /\ mounted = TRUE
        /\ events = 0
        /\ lastCall = s.last
        /\ lastFired = [cycle |-> 0, enableTokenCount |-> FALSE]
        /\ log = <<>>
        /\ EditorsInit

SpecPrefilled == InitPrefilled /\ [][Next]_vars

Entries(kind) == {i \in DOMAIN log : log[i].kind = kind}

\* C1: a token result is written into stats only by the most recently
\* scheduled cycle: when updateStats was called again while the computation
\* was pending, the superseded cycle's result is not published.
C1_StaleTokensDiscarded ==
    \A i \in Entries("tokens") : log[i].live => log[i].cycle = log[i].gen

\* C2: successive updateStats calls, each made before the previous timer fired,
\* give exactly one basic publication, computed from the text of the last call:
\* every basic publication comes from the latest call and reports its text, no
\* cycle publishes twice, and once no timer is pending the latest call has
\* published.
C2_DebounceLastCallWins ==
    /\ \A i \in Entries("basic") :
          /\ log[i].cycle = log[i].gen
          /\ log[i].report = calculateStats(log[i].latest)
          /\ \A j \in Entries("basic") : log[j].cycle = log[i].cycle => j = i
    /\ (mounted /\ timers = {}) => \E i \in Entries("basic") : log[i].cycle = lastCall.cycle

\* two user events (at least five calls) preceded the first firing, and the one
\* publication reports a text of three characters
C2_Witness ==
    /\ Len(log) = 1
    /\ log[1].kind = "basic"
    /\ log[1].cycle >= 5
    /\ log[1].report.totalChars = 3
    /\ timers = {}

\* C3: at most one debounce timer is pending, it is the one the ref names and
\* the one the latest updateStats call armed; cancelled timers are gone.
C3_AtMostOnePendingTimer ==
    /\ Cardinality(timers) <= 1
    /\ \A t \in timers : t.id = debounceTimeoutRef /\ t.id = lastCall.cycle
    /\ \A i \in DOMAIN log : log[i].kind # "clear" => log[i].cycle <= debounceTimeoutRef

\* a file import and a text change have replaced each other's timers, none of
\* which has run
C3_Witness ==
    /\ Cardinality(timers) = 1
    /\ lastCall.cycle >= 5
    /\ log = <<>>

\* C4: the armed delay is 300 ms up to 10,000 characters, 600 ms up to 50,000,
\* 1000 ms up to 100,000 and 2000 ms above.
C4_DelayTiers ==
    \A t \in timers :
        LET n == Length(t.inputText)
        IN  /\ n <= 10000 => t.delay = 300
            /\ (10001 <= n /\ n <= 50000) => t.delay = 600
            /\ (50001 <= n /\ n <= 100000) => t.delay = 1000
            /\ n > 100000 => t.delay = 2000

\* a timer for a text of exactly 100,000 characters is armed (with 1000 ms)
\* after one for a shorter text was replaced
C4_Witness ==
    /\ events = 2
    /\ \E t \in timers : Length(t.inputText) = 100000 /\ t.delay = 1000

\* C5: within a cycle the basic statistics are published first, then the
\* report with tokens = -1, then the final token count.
C5_PublicationOrder ==
    /\ \A i \in Entries("tokens") :
          \E j \in Entries("basic") : \E k \in Entries("pending") :
              /\ j < k /\ k < i
              /\ log[j].cycle = log[i].cycle /\ log[k].cycle = log[i].cycle
              /\ log[k].report.tokens = <<-1>>
    /\ \A k \in Entries("pending") :
          \E j \in Entries("basic") : j < k /\ log[j].cycle = log[k].cycle

\* a cycle has published all three reports, the last with a real count
C5_Witness ==
    \E i \in Entries("tokens") : log[i].outcome = "ok" /\ log[i].report.tokens # <<0>>

\* C6: while token counting is off and the most recently fired cycle ran with
\* it off (and so has published its basic statistics), stats has no tokens.
C6_TokensOnlyWhenRequested ==
    (~enableTokenCount /\ lastFired.cycle > 0 /\ ~lastFired.enableTokenCount)
        => stats.tokens = NoTokens

\* C7: a failing tokenizer (import or encode) publishes tokens = 0 and leaves
\* every basic field of the published report as it was.
C7_TokenizerFailureIsSoft ==
    \A i \in Entries("tokens") :
        log[i].outcome # "ok" =>
            /\ log[i].report.tokens = <<0>>
            /\ \A f \in BasicFields : log[i].report[f] = log[i].prev[f]

\* both kinds of failure have happened, each over a non-empty basic report
C7_Witness ==
    /\ \E i \in Entries("tokens") :
          log[i].outcome = "importFailed" /\ log[i].prev.totalChars > 0
    /\ \E i \in Entries("tokens") :
          log[i].outcome = "encodeThrew" /\ log[i].prev.totalChars > 0

\* the latest publication of a whole report (basic statistics or clearText)
\* before entry i; 0 if there is none
LastBasicBefore(i) ==
    LET earlier == {j \in Entries("basic") \cup Entries("clear") : j < i}
    IN  IF earlier = {} THEN 0 ELSE CHOOSE j \in earlier : \A k \in earlier : k <= j

\* C8: the final token publication changes only tokens: all other fields equal
\* those of stats before the write and of the most recently published basic
\* statistics, whichever cycle published them.
C8_TokenWriteFrame ==
    \A i \in Entries("tokens") :
        /\ LastBasicBefore(i) # 0
        /\ \A f \in BasicFields :
              /\ log[i].report[f] = log[i].prev[f]
              /\ log[i].report[f] = log[LastBasicBefore(i)].report[f]

\* a token count arrived after a later cycle had republished basic statistics
\* that differ from those of the count's own cycle
C8_Witness ==
    \E i \in Entries("tokens") : \E j \in Entries("basic") :
        /\ j = LastBasicBefore(i)
        /\ log[j].cycle > log[i].cycle
        /\ \E k \in Entries("basic") :
              /\ log[k].cycle = log[i].cycle
              /\ log[k].report.totalChars # log[j].report.totalChars

C10_EncodeDeferred ==
    /\ \A task \in tokenTasks :
          \E j \in Entries("basic") : \E k \in Entries("pending") :
              j < k /\ log[j].cycle = task.cycle /\ log[k].cycle = task.cycle
    /\ \A i \in Entries("tokens") :
          log[i].outcome \in {"ok", "encodeThrew"} =>
              \E j \in Entries("basic") : \E k \in Entries("pending") :
                  /\ j < k /\ k < i
                  /\ log[j].cycle = log[i].cycle /\ log[k].cycle = log[i].cycle
                  /\ log[k].turn < log[i].turn

\* two cycles under the same model have run encode: the second found the
\* tokenizer module already loaded, so only the 10 ms timer deferred it
C10_Witness ==
    /\ selectedModel = "gpt-4o"
    /\ events = 2
    /\ \E i \in Entries("tokens") : \E j \in Entries("tokens") :
          /\ i < j
          /\ log[i].cycle # log[j].cycle
          /\ log[i].outcome = "ok" /\ log[j].outcome = "ok"

----------------------------------------------------------------------------
(* Properties of calculateStats, stated over the reports the timer         *)
(* callback publishes: log[i].latest is the input, log[i].report the       *)
(* report.  The counts they compare with are taken from the input string   *)
(* directly.                                                               *)

CountIn(chars, S) == Cardinality({i \in DOMAIN chars : chars[i] \in S})

\* C11: totalChars = totalCharsNoSpaces + spaces, where spaces is the number
\* of space and tab characters of the input.
C11_CharsSplitBySpaces ==
    \A i \in Entries("basic") :
        LET r == log[i].report
        IN  /\ r.totalChars = r.totalCharsNoSpaces + r.spaces
            /\ r.spaces = CountIn(log[i].latest.body, {"SP", "TAB"})

\* a report over a string with a letter, two spaces and a carriage return
C11_Witness ==
    \E i \in Entries("basic") :
        /\ log[i].latest.body = <<"a", "SP", "CR", "SP">>
        /\ log[i].report.spaces = 2
        /\ log[i].report.totalCharsNoSpaces = 2

\* C12: for the empty string the report has lines = 1 and every other count 0.
C12_EmptyReport ==
    \A i \in Entries("basic") :
        log[i].latest = EmptyText =>
            /\ log[i].report.lines = 1
            /\ \A f \in BasicFields \ {"lines"} : log[i].report[f] = 0

\* the code units of each class, as the claims name them
SpaceUnits == {"SP", "TAB"}
DigitUnits == {"0", "1", "2", "3", "9"}
LetterUnits == {"a", "b", "c", "d", "e", "i", "l", "n", "o", "r", "w", "z", "A", "Z"}
IdeographUnits == {"U4E00", "U4F60", "U597D", "U9FFF"}
PunctuationUnits ==
    {".", ",", ";", ":", "!", "?", "QUOTE", "DQUOTE", "LPAREN", "RPAREN", "LBRACKET",
     "RBRACKET", "LBRACE", "RBRACE", "-", "_", "+", "=", "<", ">", "/", "@", "#", "$",
     "%", "^", "&", "STAR", "~", "BACKTICK", "|", "BACKSLASH"}
ClassifiedUnits ==
    SpaceUnits \cup DigitUnits \cup LetterUnits \cup IdeographUnits \cup PunctuationUnits

ClassSum(r) == r.chineseChars + r.englishChars + r.numbers + r.punctuation + r.spaces

Greeting ==
    <<"U4F60", "U597D", "SP", "w", "o", "r", "l", "d", "SP", "1", "2", "3", "!">>

\* C13: every character increments exactly the counter of its class (space or
\* tab, digit, letter, ideograph, punctuation) and no counter otherwise; the
\* greeting gives chineseChars 2, englishChars 5, numbers 3, spaces 2,
\* punctuation 1.
C13_OneCounterPerCharacter ==
    \A i \in Entries("basic") :
        LET r == log[i].report
            chars == log[i].latest.body
        IN  /\ r.spaces = CountIn(chars, SpaceUnits)
            /\ r.numbers = CountIn(chars, DigitUnits)
            /\ r.englishChars = CountIn(chars, LetterUnits)
            /\ r.chineseChars = CountIn(chars, IdeographUnits)
            /\ r.punctuation = CountIn(chars, PunctuationUnits)
            /\ chars = Greeting =>
                  /\ r.chineseChars = 2 /\ r.englishChars = 5 /\ r.numbers = 3
                  /\ r.spaces = 2 /\ r.punctuation = 1

\* the report of the greeting has been published
C13_Witness ==
    \E i \in Entries("basic") :
        log[i].latest.body = Greeting /\ log[i].report.englishChars = 5

\* C14: the five class counters sum to at most totalChars, with equality
\* exactly when the input has no line break and no unclassified character.
C14_ClassSumBound ==
    \A i \in Entries("basic") :
        LET r == log[i].report
            chars == log[i].latest.body
        IN  /\ ClassSum(r) <= r.totalChars
            /\ (ClassSum(r) = r.totalChars) <=>
                   (\A k \in DOMAIN chars : chars[k] \in ClassifiedUnits)

\* a string without line break that U+FF01 alone keeps below totalChars
C14_Witness ==
    \E i \in Entries("basic") :
        /\ log[i].latest.body = <<"a", "SP", "1", "UFF01">>
        /\ ClassSum(log[i].report) = 3

WordUnits == LetterUnits \cup DigitUnits \cup IdeographUnits

\* the number of maximal runs of word characters
WordRuns(chars) ==
    Cardinality({k \in DOMAIN chars :
                    chars[k] \in WordUnits /\ (k = 1 \/ chars[k - 1] \notin WordUnits)})

\* C15: words is the number of maximal runs of letters, digits and ideographs;
\* every other character ends the run (the greeting has 3 words).
C15_WordsAreRuns ==
    \A i \in Entries("basic") :
        /\ log[i].report.words = WordRuns(log[i].latest.body)
        /\ log[i].latest.body = Greeting => log[i].report.words = 3

\* punctuation splits two runs, the second of a digit and an ideograph
C15_Witness ==
    \E i \in Entries("basic") :
        log[i].latest.body = <<"a", "!", "1", "U4E00">> /\ log[i].report.words = 2

\* the line (1, 2, ...) that position k of chars lies on
LineOf(chars, k) == 1 + Cardinality({j \in 1..(k - 1) : chars[j] = "LF"})

NumLines(chars) == 1 + CountIn(chars, {"LF"})

\* line n has a character other than space, tab and carriage return
NonBlankLine(chars, n) ==
    \E k \in DOMAIN chars :
        LineOf(chars, k) = n /\ chars[k] \notin {"SP", "TAB", "CR", "LF"}

\* C16 as claimed: paragraphs is the number of maximal runs of consecutive
\* non-blank lines.
C16_ParagraphsAreRunsOfLines ==
    \A i \in Entries("basic") :
        LET chars == log[i].latest.body
        IN  log[i].report.paragraphs =
                Cardinality({n \in 1..NumLines(chars) :
                                /\ NonBlankLine(chars, n)
                                /\ (n = 1 \/ ~NonBlankLine(chars, n - 1))})

\* C16 as amended: paragraphs is the number of non-blank lines; a line break
\* after non-blank content ends the paragraph, and a paragraph open at the end
\* of the input is counted ("line1\n\nline2" gives 2).
C16_ParagraphsAreNonBlankLines ==
    \A i \in Entries("basic") :
        LET chars == log[i].latest.body
        IN  /\ log[i].report.paragraphs =
                   Cardinality({n \in 1..NumLines(chars) : NonBlankLine(chars, n)})
            /\ chars = <<"l", "i", "n", "e", "1", "LF", "LF", "l", "i", "n", "e", "2">>
                   => log[i].report.paragraphs = 2

\* two adjacent non-blank lines, the second only blank up to its last character
C16_Witness ==
    \E i \in Entries("basic") :
        log[i].latest.body = <<"a", "LF", "SP", "a">> /\ log[i].report.paragraphs = 2

\* C17: for a non-empty input, lines is 1 plus the number of line feeds, so a
\* trailing line feed counts a last, empty line.
C17_LinesCountLineFeeds ==
    \A i \in Entries("basic") :
        log[i].latest # EmptyText =>
            /\ log[i].report.lines = 1 + CountIn(log[i].latest.body, {"LF"})
            /\ log[i].report.lines >= 1

\* a trailing line feed after a carriage return and a line feed
C17_Witness ==
    \E i \in Entries("basic") :
        log[i].latest.body = <<"a", "CR", "LF", "LF">> /\ log[i].report.lines = 3

ExampleABC == <<"a", "SP", "b", "LF", "c">>

\* C18 as claimed: "a b\nc" gives totalChars 5, spaces 2, englishChars 3,
\* lines 2, words 3, paragraphs 2.
C18_ExampleAsClaimed ==
    \A i \in Entries("basic") :
        log[i].latest.body = ExampleABC =>
            LET r == log[i].report
            IN  /\ r.totalChars = 5 /\ r.spaces = 2 /\ r.englishChars = 3
                /\ r.lines = 2 /\ r.words = 3 /\ r.paragraphs = 2

\* C18 as amended: "a b\nc" gives totalChars 5, spaces 1, englishChars 3,
\* lines 2, words 3, paragraphs 2.
C18_Example ==
    \A i \in Entries("basic") :
        log[i].latest.body = ExampleABC =>
            LET r == log[i].report
            IN  /\ r.totalChars = 5 /\ r.spaces = 1 /\ r.englishChars = 3
                /\ r.lines = 2 /\ r.words = 3 /\ r.paragraphs = 2

\* the report of "a b\nc" has been published
C18_Witness ==
    \E i \in Entries("basic") :
        log[i].latest.body = ExampleABC /\ log[i].report.totalCharsNoSpaces = 4

\* the number of Unicode scalar values of a well-formed string of code units:
\* a high surrogate followed by a low surrogate is one value
ScalarValues(chars) ==
    Len(chars) - Cardinality({k \in DOMAIN chars :
                                 /\ chars[k] = "UD83D"
                                 /\ k < Len(chars)
                                 /\ chars[k + 1] = "UDE00"})

\* C19: totalChars is the number of Unicode scalar values of the input, so a
\* character outside the Basic Multilingual Plane adds 1 to totalChars and to
\* totalCharsNoSpaces.
C19_TotalCharsCountsScalarValues ==
    \A i \in Entries("basic") :
        LET r == log[i].report
            chars == log[i].latest.body
        IN  /\ r.totalChars = ScalarValues(chars)
            /\ r.totalCharsNoSpaces = ScalarValues(chars) - CountIn(chars, SpaceUnits)

----------------------------------------------------------------------------
(* Quiescence of the token computation.                                    *)

\* no debounce timer is armed and no tokenizer load or computation is in flight
Quiescent == timers = {} /\ tokenTasks = {}

\* every token computation of the run ended normally
AllTokenizersSucceeded == \A i \in Entries("tokens") : log[i].outcome = "ok"

\* C21: with token counting enabled, once no timer is pending and every
\* tokenizer load and computation has completed (all of them normally), the
\* published tokens value is the token count of the last scheduled text under
\* the last selected model.
C21_TokensOfLastCycle ==
    (mounted /\ enableTokenCount /\ Quiescent /\ AllTokenizersSucceeded)
        => stats.tokens = <<Tokenize(lastCall.inputText, Encoding(selectedModel))>>

\* a cycle that switched the calculating indicator on (lines 231-234)
SwitchedOn(inputText, enable) == Length(inputText) > 10000 \/ enable

\* C22: while a cycle that switched the calculating indicator on is pending
\* (its timer is armed) or has a token computation in flight, isCalculating
\* is true.
C22_IndicatorCoversOpenCycles ==
    (mounted /\ (\/ \E t \in timers : SwitchedOn(t.inputText, t.enableTokenCount)
                 \/ tokenTasks # {}))
        => isCalculating

----------------------------------------------------------------------------
(* Paragraphs against lines, words against classified characters.          *)

\* the characters that leave a line blank, and the line feed that ends it
BlankUnits == {"SP", "TAB", "CR", "LF"}

\* the lines of chars that hold a character other than space, tab and CR
InkLines(chars) == {LineOf(chars, k) : k \in {j \in DOMAIN chars : chars[j] \notin BlankUnits}}

\* C27: paragraphs is the number of lines that contain a character other than
\* space, tab and carriage return; so for a non-empty input paragraphs <= lines,
\* and paragraphs = 0 exactly when every character is a space, a tab, a
\* carriage return or a line feed.
C27_ParagraphsWithinLines ==
    \A i \in Entries("basic") :
        LET r == log[i].report
            chars == log[i].latest.body
        IN  /\ r.paragraphs = Cardinality(InkLines(chars))
            /\ chars # <<>> => r.paragraphs <= r.lines
            /\ r.paragraphs = 0 <=> \A k \in DOMAIN chars : chars[k] \in BlankUnits

\* two lines of blanks only, one of them a lone carriage return
C27_Witness ==
    \E i \in Entries("basic") :
        /\ log[i].latest.body = <<"SP", "CR", "LF", "TAB">>
        /\ log[i].report.paragraphs = 0
        /\ log[i].report.lines = 2

\* C28: words <= englishChars + numbers + chineseChars, and words = 0 exactly
\* when that sum is 0: the word scan and the classification scan agree on the
\* word characters.
C28_WordsWithinWordCharacters ==
    \A i \in Entries("basic") :
        LET r == log[i].report
            wordChars == r.englishChars + r.numbers + r.chineseChars
        IN  /\ r.words <= wordChars
            /\ r.words = 0 <=> wordChars = 0
            /\ wordChars = CountIn(log[i].latest.body, WordUnits)

\* one ideograph between punctuation: one word, one word character
C28_Witness ==
    \E i \in Entries("basic") :
        /\ log[i].latest.body = <<"!", "U4E00", "UFF01">>
        /\ log[i].report.words = 1
        /\ log[i].report.chineseChars = 1

----------------------------------------------------------------------------
(* HtmlEditor: the preview debounce.                                       *)

\* C23: every updatePreview call cancels the write scheduled by the previous
\* call, so at most one write is pending, and at most one write of the preview
\* iframe follows the last change of the content.
C23_PreviewWrittenOnce ==
    /\ Len(htmlEditor.timers) <= 1
    /\ htmlEditor.writes <= 1

----------------------------------------------------------------------------
(* PlantUMLEditor: the render debounce and the order of the responses.     *)

\* C24: renderPlantUML is triggered by the debounce timer only, 500 ms after
\* the last change: no render is issued in the turn of a code change, for a
\* value that further typing may replace.
C24_RenderOnlyAfterQuietPeriod ==
    \A i \in DOMAIN plantUMLEditor.renderLog : plantUMLEditor.renderLog[i].by # "change"

\* the latest renderPlantUML call sent a request to the server
LatestRenderRequested ==
    /\ plantUMLEditor.lastRender # <<>>
    /\ plantUMLEditor.renderLog # <<>>
    /\ plantUMLEditor.renderLog[Len(plantUMLEditor.renderLog)].code = plantUMLEditor.lastRender[1]

\* C25: once no timer is armed and every request has been answered, in any
\* order, the preview and a rendering error on display belong to the most
\* recently requested code.
C25_LatestRequestWins ==
    (plantUMLEditor.timer = <<>> /\ plantUMLEditor.requests = {} /\ LatestRenderRequested)
    => /\ plantUMLEditor.preview.code = plantUMLEditor.lastRender[1]
       /\ (plantUMLEditor.error # NoError /\ plantUMLEditor.error.kind \in Responses)
              => plantUMLEditor.error.code = plantUMLEditor.lastRender[1]

----------------------------------------------------------------------------
(* MermaidEditor (part_002): the debounced render.                         *)

\* C26: a change of the code to a non-blank value, made once the Mermaid
\* library has loaded, is followed 500 ms later by a Mermaid render of that
\* value: every run of the debounce callback for such a change renders.
C26_DebouncedRenderReachesMermaid ==
    \A i \in DOMAIN mermaidEditor.fired :
        LET f == mermaidEditor.fired[i]
        IN  (f.loaded /\ Trim(f.value) # "") => f.rendered

----------------------------------------------------------------------------
(* The zoom of the PlantUML editor and of the zoomable Mermaid editor.     *)

\* C29: whatever zoom-in, zoom-out, wheel and reset actions came before, the
\* zoom factor lies within [minZoom, maxZoom]; zoom-in at maxZoom and zoom-out
\* at minZoom leave it unchanged, and reset sets it to 1.
C29_ZoomWithinLimits ==
    /\ minZoom <= zoom.factor /\ zoom.factor <= maxZoom
    /\ (zoom.last.op = "handleZoomIn" /\ zoom.last.before = maxZoom) => zoom.factor = maxZoom
    /\ (zoom.last.op = "handleZoomOut" /\ zoom.last.before = minZoom) => zoom.factor = minZoom
    /\ zoom.last.op = "handleZoomReset" => zoom.factor = initialZoom

\* the Mermaid editor, zoomed in once more at the largest factor
C29_Witness ==
    /\ zoom.editor = "MermaidEditor"
    /\ zoom.last = [op |-> "handleZoomIn", before |-> maxZoom]
    /\ zoom.factor = maxZoom

----------------------------------------------------------------------------
(* WordToMarkdownEditor: rejected and accepted uploads.                    *)

\* the file names that end in .docx, whatever the case of the letters
DocxNames ==
    {name \in FileNames :
        /\ Len(name) >= 5
        /\ name[Len(name) - 4] = "."
        /\ name[Len(name) - 3] \in {"d", "D"}
        /\ name[Len(name) - 2] \in {"o", "O"}
        /\ name[Len(name) - 1] \in {"c", "C"}
        /\ name[Len(name)] \in {"x", "X"}}

\* C30: handleFileUpload with a file whose name does not end in .docx, in any
\* case of the letters, sets the error message and changes nothing else:
\* isConverting stays false, markdown and conversionResult keep their values
\* and no conversion starts.  For an accepted file isConverting is true while
\* the conversion runs and false once it has ended, by success or by a throw.
C30_UploadRejectedOrConverted ==
    LET w == wordToMarkdownEditor
    IN  /\ (w.last.op = "handleFileUpload" /\ w.last.file[1].name \notin DocxNames)
              => /\ w.error = NotDocxMessage
                 /\ ~w.isConverting
                 /\ w.job = <<>>
                 /\ w.markdown = w.last.markdown
                 /\ w.conversionResult = w.last.conversionResult
        /\ (w.last.op = "handleFileUpload" /\ w.last.file[1].name \in DocxNames)
              => w.isConverting /\ w.job = w.last.file
        /\ w.job # <<>> => w.isConverting
        /\ w.last.op \in {"converted", "threw"} => ~w.isConverting /\ w.job = <<>>

\* a file named a.doc, refused while the result of an earlier conversion is
\* on display
C30_Witness ==
    LET w == wordToMarkdownEditor
    IN  /\ w.last.op = "handleFileUpload"
        /\ w.last.file[1].name = <<"a", ".", "d", "o", "c">>
        /\ w.error = NotDocxMessage
        /\ w.markdown = "# Report"
        /\ w.conversionResult # <<>>

====
